---- MODULE Spec2Model ----
(***************************************************************************)
(* A model of the summy bot's configuration store, message formatter and   *)
(* summarization prompt (menmenash/summy_gcp).                              *)
(*                                                                         *)
(*   SpecConfig  ConfigManager over one Firestore document                  *)
(*               (src/services/config_manager.py)                           *)
(*   SpecFormat  prepare_message_for_telegram applied to a text and then    *)
(*               to its own output (src/utils/telegram_utils.py)            *)
(*   SpecBot     the bot's handlers over the configuration store and the    *)
(*               last-article blob (src/bot/telegram_bot.py)                *)
(*   SpecSummarizer  extract_from_url and TextSummarizer called on their    *)
(*               own (src/services/text_extractor.py, text_summarizer.py)   *)
(*   SpecConcurrent  ConfigManager's methods interleaved by several clients *)
(*               (src/services/config_manager.py)                           *)
(***************************************************************************)
EXTENDS Integers, Sequences, FiniteSets, TLC

VARIABLES
    store,      \* the Firestore document 'config': {} when absent, {doc} when present
    last,       \* the last ConfigManager call: its arguments, outcome and effects
    written,    \* the triple of the last update_config that returned True ({} if none)
    raw,        \* the text handed to prepare_message_for_telegram, as characters
    ntok,       \* the number of pieces raw was put together from
    maxc,       \* the max_chars argument of the formatter call
    out1,       \* what prepare_message_for_telegram(raw, maxc) returned
    out2,       \* what prepare_message_for_telegram(out1, maxc) returned
    fpc,        \* "build": raw is being put together; "once", "twice": formatted
    slot,       \* the storage blob 'Last_Article': {} when absent, {text} when present
    req,        \* the last request the bot handled: its input, calls, replies, end
    call,       \* the last extractor or summarizer call: its input, prompts, result
    clients     \* the position and locals of each client inside a ConfigManager method

cfgVars == <<store, last, written>>
fmtVars == <<raw, ntok, maxc, out1, out2, fpc>>
botVars == <<slot, req>>
sumVars == <<call>>
conVars == <<clients>>
vars == <<cfgVars, fmtVars, botVars, sumVars, conVars>>

(***************************************************************************)
(* Python values handed to update_config: an int, or a value that fails    *)
(* isinstance(v, int).                                                     *)
(***************************************************************************)
PyInt(n) == [isInt |-> TRUE, val |-> n]
NotAnInt == [isInt |-> FALSE, val |-> 0]

WORDS_LIMIT_MIN == 0
WORDS_LIMIT_MAX == 800
MESSAGE_SIZE_MIN == 1
MESSAGE_SIZE_MAX == 4096
DEFAULT_WORDS_LIMIT == 300
DEFAULT_MESSAGE_SIZE == 4096

\* The document update_config writes (the dict literal of doc_ref.set).
ConfigDocWrongSize(lang, words_limit, size) ==
    [lang |-> lang, words_limit |-> words_limit,
     telegram_message_size_limit |-> PyInt(DEFAULT_MESSAGE_SIZE)]

ConfigDoc(lang, words_limit, size) ==
    [lang |-> lang, words_limit |-> words_limit,
     telegram_message_size_limit |-> size]

\* self.default_config
DefaultConfig ==
    ConfigDoc("eng", PyInt(DEFAULT_WORDS_LIMIT), PyInt(DEFAULT_MESSAGE_SIZE))

\* The three validation tests of update_config; TRUE when none raises.
ValidInputOffByOne(lang, words_limit, size) ==
    /\ lang \in {"eng", "heb"}
    /\ ~(~words_limit.isInt \/ words_limit.val < WORDS_LIMIT_MIN
            \/ words_limit.val > WORDS_LIMIT_MAX + 1)
    /\ ~(~size.isInt \/ size.val < MESSAGE_SIZE_MIN \/ size.val > MESSAGE_SIZE_MAX)

ValidInput(lang, words_limit, size) ==
    /\ lang \in {"eng", "heb"}
    /\ ~(~words_limit.isInt \/ words_limit.val < WORDS_LIMIT_MIN
            \/ words_limit.val > WORDS_LIMIT_MAX)
    /\ ~(~size.isInt \/ size.val < MESSAGE_SIZE_MIN \/ size.val > MESSAGE_SIZE_MAX)

\* How update_config ends: a raised ValueError, True, or False from the except
\* branch around doc_ref.set.
UpdateOutcomeNoExcept(valid, setOk) ==
    IF ~valid THEN "ValueError" ELSE IF setOk THEN "True" ELSE "StorageError"

UpdateOutcome(valid, setOk) ==
    IF ~valid THEN "ValueError" ELSE IF setOk THEN "True" ELSE "False"

\* Arguments the model calls update_config with.
LangInputs == {"eng", "heb", "fra"}
WordsInputs == {PyInt(-1), PyInt(0), PyInt(300), PyInt(800), PyInt(801), NotAnInt}
SizeInputs == {PyInt(0), PyInt(1), PyInt(4096), PyInt(4097), NotAnInt}

NoArgs == <<>>

(***************************************************************************)
(* ConfigManager.read_or_initialize_config. doc_ref.get and doc_ref.set    *)
(* are calls into Firestore: each either takes effect or raises without    *)
(* effect (getOk, setOk), and nothing here catches what they raise.        *)
(***************************************************************************)
ReadOrInitializeResultAlwaysSet(st, getOk, setOk) ==
    [outcome |-> IF getOk /\ setOk THEN "ok" ELSE "StorageError",
     ret |-> IF getOk /\ setOk THEN {DefaultConfig} ELSE {},
     store |-> IF getOk /\ setOk THEN {DefaultConfig} ELSE st,
     setCalled |-> getOk, fault |-> ~getOk \/ ~setOk]

\* What the call returns or raises on the store st, and the store it leaves.
ReadOrInitializeResult(st, getOk, setOk) ==
    IF ~getOk
    THEN [outcome |-> "StorageError", ret |-> {}, store |-> st,
          setCalled |-> FALSE, fault |-> TRUE]
    ELSE IF st # {}
    THEN [outcome |-> "ok", ret |-> st, store |-> st,
          setCalled |-> FALSE, fault |-> FALSE]
    ELSE IF setOk
    THEN [outcome |-> "ok", ret |-> {DefaultConfig}, store |-> {DefaultConfig},
          setCalled |-> TRUE, fault |-> FALSE]
    ELSE [outcome |-> "StorageError", ret |-> {}, store |-> st,
          setCalled |-> TRUE, fault |-> TRUE]

ReadOrInitialize(getOk, setOk) ==
    LET r == ReadOrInitializeResult(store, getOk, setOk)
    IN  /\ last' = [op |-> "read", args |-> NoArgs, pre |-> store,
                    setCalled |-> r.setCalled, fault |-> r.fault,
                    outcome |-> r.outcome, ret |-> r.ret]
        /\ store' = r.store
        /\ UNCHANGED written

(***************************************************************************)
(* ConfigManager.update_config(lang, words_limit, size).                   *)
(***************************************************************************)
\* How the call ends on the store st, and the store it leaves.
UpdateConfigResult(st, lang, words_limit, size, setOk) ==
    LET valid == ValidInput(lang, words_limit, size)
    IN  [outcome |-> UpdateOutcome(valid, setOk),
         store |-> IF valid /\ setOk THEN {ConfigDoc(lang, words_limit, size)} ELSE st,
         setCalled |-> valid, fault |-> valid /\ ~setOk]

UpdateConfig(lang, words_limit, size, setOk) ==
    LET r == UpdateConfigResult(store, lang, words_limit, size, setOk)
    IN  /\ last' = [op |-> "update", args |-> <<lang, words_limit, size>>, pre |-> store,
                    setCalled |-> r.setCalled, fault |-> r.fault,
                    outcome |-> r.outcome, ret |-> {}]
        /\ store' = r.store
        /\ written' = IF r.outcome = "True" THEN {<<lang, words_limit, size>>} ELSE written

\* The formatter is idle while the configuration store is exercised.
FormatIdle ==
    /\ raw = <<>> /\ ntok = 0 /\ maxc = 0
    /\ out1 = <<>> /\ out2 = <<>> /\ fpc = "idle"

\* No ConfigManager call has been made.
NoCalls ==
    /\ written = {}
    /\ last = [op |-> "none", args |-> NoArgs, pre |-> {}, setCalled |-> FALSE,
               fault |-> FALSE, outcome |-> "none", ret |-> {}]

ConfigIdle == store = {} /\ NoCalls

\* No request has been handled and no article is stored.
NoRequest ==
    [handler |-> "none", authorized |-> FALSE, args |-> <<>>, doc |-> {},
     fault |-> "none", extracted |-> FALSE, prompts |-> <<>>, replies |-> <<>>,
     outcome |-> "none", error |-> "none", slotPre |-> {}, storePre |-> {}]

BotIdle == slot = {} /\ req = NoRequest

\* No extractor or summarizer call has been made.
NoCall ==
    [op |-> "none", page |-> <<>>, text |-> <<>>, is_webpage |-> FALSE, config |-> {},
     prompts |-> <<>>, returned |-> {}, error |-> "none"]

SummIdle == call = NoCall

\* No client is inside a ConfigManager method.
ClientsIdle == clients = <<>>

InitConfig ==
    /\ FormatIdle
    /\ BotIdle
    /\ SummIdle
    /\ ClientsIdle
    /\ ConfigIdle

NextConfig ==
    \/ /\ \E getOk \in BOOLEAN, setOk \in BOOLEAN : ReadOrInitialize(getOk, setOk)
       /\ UNCHANGED <<fmtVars, botVars, sumVars, conVars>>
    \/ /\ \E lang \in LangInputs, w \in WordsInputs, s \in SizeInputs, setOk \in BOOLEAN :
             UpdateConfig(lang, w, s, setOk)
       /\ UNCHANGED <<fmtVars, botVars, sumVars, conVars>>

SpecConfig == InitConfig /\ [][NextConfig]_vars

(***************************************************************************)
(* Properties of the configuration store (SpecConfig).                     *)
(***************************************************************************)
\* The ranges of the configuration record as the specification states them.
InRange(t) ==
    /\ t[1] \in {"eng", "heb"}
    /\ t[2].isInt /\ t[2].val >= 0 /\ t[2].val <= 800
    /\ t[3].isInt /\ t[3].val >= 1 /\ t[3].val <= 4096

Triple(d) == <<d.lang, d.words_limit, d.telegram_message_size_limit>>

ConfigKeys == {"lang", "words_limit", "telegram_message_size_limit"}

SpecDefault ==
    [lang |-> "eng", words_limit |-> PyInt(300),
     telegram_message_size_limit |-> PyInt(4096)]

\* C1: an update_config that returned True has stored exactly the three fields
\* it was given, and a read_or_initialize_config that returns after the last
\* such update returns exactly those three values.
C1_RoundTrip ==
    /\ (last.op = "update" /\ last.outcome = "True") =>
          /\ InRange(last.args)
          /\ \E d \in store : store = {d} /\ DOMAIN d = ConfigKeys
                                /\ Triple(d) = last.args
    /\ (last.op = "read" /\ last.outcome = "ok" /\ written # {}) =>
          \E d \in last.ret : last.ret = {d} /\ DOMAIN d = ConfigKeys
                                /\ written = {Triple(d)}

\* A read returned a non-default configuration written by an earlier update.
C1_Witness ==
    /\ last.op = "read" /\ last.outcome = "ok"
    /\ written = {<<"heb", PyInt(800), PyInt(1)>>}
    /\ last.ret = {[lang |-> "heb", words_limit |-> PyInt(800),
                    telegram_message_size_limit |-> PyInt(1)]}

\* C2: update_config with an input outside the ranges raises the validation
\* error and leaves the stored record exactly as it was before the call.
C2_InvalidRejected ==
    (last.op = "update" /\ ~InRange(last.args)) =>
        /\ last.outcome = "ValueError"
        /\ store = last.pre
        /\ ~last.setCalled

\* update_config("eng", 801, 4096) was refused over a stored record.
C2_Witness ==
    /\ last.op = "update"
    /\ last.args = <<"eng", PyInt(801), PyInt(4096)>>
    /\ last.outcome = "ValueError"
    /\ last.pre # {}
    /\ store = last.pre

\* C3: a read_or_initialize_config that returns on an empty store returns the
\* default {eng, 300, 4096} and has stored it; on a non-empty store (a second
\* call included) it returns the stored record, writes nothing and leaves the
\* store as it was.
C3_ReadOrInitialize ==
    (last.op = "read" /\ last.outcome = "ok") =>
        /\ last.pre = {} => (last.ret = {SpecDefault} /\ store = {SpecDefault})
        /\ last.pre # {} => (last.ret = last.pre /\ store = last.pre
                                /\ ~last.setCalled)

\* The second call: the store already held the default, and it was returned.
C3_Witness ==
    /\ last.op = "read" /\ last.outcome = "ok"
    /\ last.pre = {SpecDefault}
    /\ last.ret = {SpecDefault}
    /\ written = {}

\* C4: the stored record is absent or within the ranges in every reachable
\* state, and no step removes a record that is present.
C4_StoreValid ==
    /\ [](\A d \in store : store = {d} /\ DOMAIN d = ConfigKeys /\ InRange(Triple(d)))
    /\ [][store # {} => store' # {}]_vars

\* A record other than the default is stored after a call that failed.
C4_Witness ==
    /\ store # {} /\ store # {SpecDefault}
    /\ last.outcome \in {"ValueError", "False", "StorageError"}

\* C5: update_config with valid input returns True when the write succeeds and
\* False, without raising, exactly when the write fails, the store then being
\* unchanged; invalid input is never answered with False.
C5_UpdateOutcome ==
    last.op = "update" =>
        /\ (InRange(last.args) /\ ~last.fault) => last.outcome = "True"
        /\ (InRange(last.args) /\ last.fault) => last.outcome = "False"
        /\ last.outcome = "False" =>
              (InRange(last.args) /\ last.fault /\ store = last.pre)
        /\ ~InRange(last.args) => last.outcome = "ValueError"
        /\ last.outcome \in {"True", "False", "ValueError"}

\* A valid update met a failing write over a stored record and returned False.
C5_Witness ==
    /\ last.op = "update" /\ last.outcome = "False"
    /\ last.fault /\ last.pre # {} /\ store = last.pre
    /\ InRange(last.args) /\ Triple(CHOOSE d \in store : TRUE) # last.args

(***************************************************************************)
(* prepare_message_for_telegram (src/utils/telegram_utils.py). A Python    *)
(* str is a sequence of one-character strings.                             *)
(***************************************************************************)
LI_OPEN    == <<"<", "l", "i", ">">>
LI_CLOSE   == <<"<", "/", "l", "i", ">">>
HTML_OPEN  == <<"<", "h", "t", "m", "l", ">">>
HTML_CLOSE == <<"<", "/", "h", "t", "m", "l", ">">>
BODY_OPEN  == <<"<", "b", "o", "d", "y", ">">>
BODY_CLOSE == <<"<", "/", "b", "o", "d", "y", ">">>
P_OPEN     == <<"<", "p", ">">>
P_CLOSE    == <<"<", "/", "p", ">">>
UL_OPEN    == <<"<", "u", "l", ">">>
UL_CLOSE   == <<"<", "/", "u", "l", ">">>
ELLIPSIS   == <<".", ".", ".">>

\* tags_to_remove, in list order
TagsToRemove ==
    <<HTML_OPEN, HTML_CLOSE, BODY_OPEN, BODY_CLOSE, P_OPEN, P_CLOSE, UL_OPEN, UL_CLOSE>>

\* tags_to_replace, in the dict's insertion order
TagsToReplace ==
    << <<LI_OPEN, <<"\n", "-", " ">> >>, <<LI_CLOSE, <<>> >> >>

\* str.replace(old, new) for a non-empty old: the non-overlapping occurrences
\* of old, found from the left (from index i on), each replaced by new.
RECURSIVE ReplaceFrom(_, _, _, _)
ReplaceFrom(s, i, old, new) ==
    LET hits == {j \in i..(Len(s) - Len(old) + 1) :
                    s[j] = old[1] /\ SubSeq(s, j, j + Len(old) - 1) = old}
    IN  IF hits = {} THEN SubSeq(s, i, Len(s))
        ELSE LET first == CHOOSE j \in hits : \A k \in hits : j <= k
             IN  SubSeq(s, i, first - 1) \o new
                 \o ReplaceFrom(s, first + Len(old), old, new)

Replace(s, old, new) == ReplaceFrom(s, 1, old, new)

\* for tag, replacement in pairs: summary = summary.replace(tag, replacement)
RECURSIVE ReplaceEach(_, _)
ReplaceEach(s, pairs) ==
    IF pairs = <<>> THEN s
    ELSE ReplaceEach(Replace(s, Head(pairs)[1], Head(pairs)[2]), Tail(pairs))

\* for tag in tags: summary = summary.replace(tag, "")
RECURSIVE RemoveEach(_, _)
RemoveEach(s, tags) ==
    IF tags = <<>> THEN s
    ELSE RemoveEach(Replace(s, Head(tags), <<>>), Tail(tags))

\* The two loops over the tags, then the removal of "&", "<", ">".
StripMarkup(s) ==
    Replace(Replace(Replace(RemoveEach(ReplaceEach(s, TagsToReplace), TagsToRemove),
                            <<"&">>, <<>>), <<"<">>, <<>>), <<">">>, <<>>)

\* summary.replace('- ', '\n-  ').replace('. ', '.\n')
InsertBreaksOneSpace(s) ==
    Replace(Replace(s, <<"-", " ">>, <<"\n", "-", " ">>),
            <<".", " ">>, <<".", "\n">>)

InsertBreaksKeepSpace(s) ==
    Replace(Replace(s, <<"-", " ">>, <<"\n", "-", " ", " ">>),
            <<".", " ">>, <<".", " ", "\n">>)

InsertBreaks(s) ==
    Replace(Replace(s, <<"-", " ">>, <<"\n", "-", " ", " ">>),
            <<".", " ">>, <<".", "\n">>)

\* The slice s[:k] of Python: a negative k counts from the end.
SliceTo(s, k) ==
    IF k >= 0
    THEN SubSeq(s, 1, IF k < Len(s) THEN k ELSE Len(s))
    ELSE SubSeq(s, 1, IF Len(s) + k > 0 THEN Len(s) + k ELSE 0)

ELLIPSIS_LEN == 3

\* if len(summary) > max_chars: summary = summary[:max_chars-3] + "..."
TruncateKeepMax(s, max_chars) ==
    IF Len(s) > max_chars THEN SliceTo(s, max_chars) \o ELLIPSIS ELSE s

Truncate(s, max_chars) ==
    IF Len(s) > max_chars THEN SliceTo(s, max_chars - ELLIPSIS_LEN) \o ELLIPSIS ELSE s

PrepareMessageForTelegram(summary, max_chars) ==
    Truncate(InsertBreaks(StripMarkup(summary)), max_chars)

\* The pieces the model puts the text together from, and the max_chars values.
Pieces ==
    {LI_OPEN, LI_CLOSE, P_OPEN, HTML_CLOSE, <<"&">>, <<"<">>, <<">">>,
     <<"-", " ">>, <<".", " ">>, <<"-">>, <<" ">>, <<"a">>,
     <<"H", "e", "l", "l", "o">>}
MaxPieces == 3
MaxCharsInputs == {1, 2, 3, 10, 4096}

\* The caller extends the text it will hand to the formatter.
AppendPiece(t) ==
    /\ fpc = "build" /\ ntok < MaxPieces
    /\ raw' = raw \o t
    /\ ntok' = ntok + 1
    /\ UNCHANGED <<maxc, out1, out2, fpc>>

\* prepare_message_for_telegram(raw, n)
FormatOnce(n) ==
    /\ fpc = "build"
    /\ maxc' = n
    /\ out1' = PrepareMessageForTelegram(raw, n)
    /\ fpc' = "once"
    /\ UNCHANGED <<raw, ntok, out2>>

\* prepare_message_for_telegram applied to its own output, same max_chars
FormatAgain ==
    /\ fpc = "once"
    /\ out2' = PrepareMessageForTelegram(out1, maxc)
    /\ fpc' = "twice"
    /\ UNCHANGED <<raw, ntok, maxc, out1>>

InitFormat ==
    /\ ConfigIdle
    /\ BotIdle
    /\ SummIdle
    /\ ClientsIdle
    /\ raw = <<>> /\ ntok = 0 /\ maxc = 0
    /\ out1 = <<>> /\ out2 = <<>> /\ fpc = "build"

NextFormat ==
    \/ /\ \E t \in Pieces : AppendPiece(t)
       /\ UNCHANGED <<cfgVars, botVars, sumVars, conVars>>
    \/ /\ \E n \in MaxCharsInputs : FormatOnce(n)
       /\ UNCHANGED <<cfgVars, botVars, sumVars, conVars>>
    \/ /\ FormatAgain
       /\ UNCHANGED <<cfgVars, botVars, sumVars, conVars>>

SpecFormat == InitFormat /\ [][NextFormat]_vars

(***************************************************************************)
(* Properties of the formatter (SpecFormat).                               *)
(***************************************************************************)
\* pat occurs in s as a run of consecutive characters
MatchAt(s, i, pat) ==
    i + Len(pat) - 1 <= Len(s) /\ SubSeq(s, i, i + Len(pat) - 1) = pat

Contains(s, pat) == \E i \in 1..Len(s) + 1 : MatchAt(s, i, pat)

EndsWith(s, pat) ==
    Len(s) >= Len(pat) /\ SubSeq(s, Len(s) - Len(pat) + 1, Len(s)) = pat

NoMarkupChars(s) == \A i \in 1..Len(s) : s[i] \notin {"<", ">", "&"}

Formatted == fpc \in {"once", "twice"}

\* The text after the replacements and before the truncation.
Visual(s) == InsertBreaks(StripMarkup(s))

\* C6: the output of the formatter is never longer than max_chars.
C6_LengthBound ==
    Formatted => Len(out1) <= maxc

\* C7 (as claimed): with max_chars = 10 every input longer than 10 characters
\* gives an output of exactly 10 characters that ends with "...".
C7_Original ==
    (Formatted /\ maxc = 10 /\ Len(raw) > 10) =>
        (Len(out1) = 10 /\ EndsWith(out1, ELLIPSIS))

\* C7 (amended): with max_chars = 10 every input whose text after the tag and
\* character removal and the bullet and sentence-break insertion is longer than
\* 10 characters gives an output of exactly 10 characters that ends with "...".
C7_Truncation ==
    (Formatted /\ maxc = 10 /\ Len(Visual(raw)) > 10) =>
        (Len(out1) = 10 /\ EndsWith(out1, ELLIPSIS))

\* An input with a tag, longer than 10 characters before and after the
\* replacements, was cut to 10 characters.
C7_Witness ==
    /\ Formatted /\ maxc = 10
    /\ Len(raw) > 10 /\ Contains(raw, LI_OPEN)
    /\ Len(Visual(raw)) > 10
    /\ Len(out1) = 10 /\ EndsWith(out1, ELLIPSIS)

\* C8 (as claimed): for an input without "&", "<", ">" (so without tags) and
\* every max_chars, formatting the output again changes nothing.
C8_Original ==
    (fpc = "twice" /\ NoMarkupChars(raw)) => out2 = out1

\* C8 (amended): for an input without "&", "<", ">" and without the dash-bullet
\* marker "- " (sentence breaks ". " allowed) and every max_chars >= 3,
\* formatting the output again changes nothing.
C8_Idempotent ==
    (fpc = "twice" /\ NoMarkupChars(raw) /\ ~Contains(raw, <<"-", " ">>) /\ maxc >= 3)
        => out2 = out1

\* A text with a sentence break was rewritten and cut to 10 characters by the
\* first pass and left alone by the second.
C8_Witness ==
    /\ fpc = "twice" /\ maxc = 10
    /\ NoMarkupChars(raw) /\ Contains(raw, <<".", " ">>)
    /\ ~Contains(raw, <<"-", " ">>)
    /\ Len(raw) > 10 /\ Len(out1) = 10 /\ Contains(out1, <<".", "\n">>)
    /\ out2 = out1

\* The list items of s: the texts between a "<li>" and the next "</li>".
ListItems(s) ==
    { SubSeq(s, i + Len(LI_OPEN), j - 1) :
        <<i, j>> \in { ij \in (1..Len(s)) \X (1..Len(s)) :
            /\ ij[2] >= ij[1] + Len(LI_OPEN)
            /\ MatchAt(s, ij[1], LI_OPEN)
            /\ MatchAt(s, ij[2], LI_CLOSE)
            /\ ~Contains(SubSeq(s, ij[1] + Len(LI_OPEN), ij[2] - 1), LI_OPEN)
            /\ ~Contains(SubSeq(s, ij[1] + Len(LI_OPEN), ij[2] - 1), LI_CLOSE) } }

BulletFor(x) == <<"\n", "-", " ", " ">> \o x

NoStructuralTag(s) == \A k \in 1..Len(TagsToRemove) : ~Contains(s, TagsToRemove[k])

Untruncated == Len(Visual(raw)) <= maxc

\* C9 (as claimed): the output holds no "<", ">", "&" and none of the
\* html/body/p/ul tags, and every list item "<li>X</li>" of the input shows in
\* the untruncated output as newline, dash, two spaces, X.
C9_Original ==
    Formatted =>
        /\ NoMarkupChars(out1) /\ NoStructuralTag(out1)
        /\ Untruncated => \A x \in ListItems(raw) : Contains(out1, BulletFor(x))

\* A list item the later steps leave as it is: no "<", ">", "&", no "- " and
\* no ". " inside, and no "-" at its end.
PlainItem(x) ==
    /\ NoMarkupChars(x)
    /\ ~Contains(x, <<"-", " ">>) /\ ~Contains(x, <<".", " ">>)
    /\ ~EndsWith(x, <<"-">>)

\* C9 (amended): the output holds no "<", ">", "&" and none of the
\* html/body/p/ul tags, and every list item "<li>X</li>" of the input whose X
\* holds no "<", ">", "&", no "- ", no ". " and does not end with "-" shows in
\* the untruncated output as newline, dash, two spaces, X.
C9_ListItems ==
    Formatted =>
        /\ NoMarkupChars(out1) /\ NoStructuralTag(out1)
        /\ Untruncated =>
              \A x \in ListItems(raw) : PlainItem(x) => Contains(out1, BulletFor(x))

\* "<li>Hello</li>" was formatted: the tags are gone and the item is a bullet.
C9_Witness ==
    /\ Formatted /\ Untruncated
    /\ raw = LI_OPEN \o <<"H", "e", "l", "l", "o">> \o LI_CLOSE
    /\ ListItems(raw) = {<<"H", "e", "l", "l", "o">>}
    /\ out1 = <<"\n">> \o BulletFor(<<"H", "e", "l", "l", "o">>)

(***************************************************************************)
(* TextExtractor.extract_from_url (src/services/text_extractor.py). A page *)
(* is the sequence of the rendered document's top-level nodes, each with   *)
(* its tag and its stripped strings; a text is a sequence of strings.      *)
(***************************************************************************)
Node(tag, strings) == [tag |-> tag, strings |-> strings]

\* " ".join(strings)
RECURSIVE JoinSp(_)
JoinSp(strings) ==
    IF Len(strings) <= 1 THEN strings
    ELSE <<Head(strings), " ">> \o JoinSp(Tail(strings))

\* for script_or_style in soup(["script", "style"]): script_or_style.decompose()
RECURSIVE Decompose(_)
Decompose(page) ==
    IF page = <<>> THEN <<>>
    ELSE IF Head(page).tag \in {"script", "style"} THEN Decompose(Tail(page))
    ELSE <<Head(page)>> \o Decompose(Tail(page))

\* soup.find(tag): the first node with the tag, {} when there is none
RECURSIVE Find(_, _)
Find(page, tag) ==
    IF page = <<>> THEN {}
    ELSE IF Head(page).tag = tag THEN {Head(page)}
    ELSE Find(Tail(page), tag)

\* soup.stripped_strings of the whole document
RECURSIVE StrippedStrings(_)
StrippedStrings(page) ==
    IF page = <<>> THEN <<>>
    ELSE Head(page).strings \o StrippedStrings(Tail(page))

FirstFoundMainFirst(a, b, c) == IF c # {} THEN c ELSE IF b # {} THEN b ELSE a

\* a or b or c over the results of find (a found tag is truthy)
FirstFound(a, b, c) == IF a # {} THEN a ELSE IF b # {} THEN b ELSE c

\* The (text, is_full_page) pair extract_from_url returns for a loaded page.
ExtractFromUrl(page) ==
    LET soup == Decompose(page)
        article_body == FirstFound(Find(soup, "article"),
                                   Find(soup, "div.article-content"),
                                   Find(soup, "main"))
    IN  IF article_body # {}
        THEN [text |-> JoinSp((CHOOSE n \in article_body : TRUE).strings),
              is_full_page |-> FALSE]
        ELSE [text |-> JoinSp(StrippedStrings(soup)), is_full_page |-> TRUE]

(***************************************************************************)
(* OpenAIUtils.get_openai_summary (src/utils/openai_utils.py): the prompt, *)
(* as the sequence of the strings it is concatenated from.                 *)
(***************************************************************************)
TRANSLATION_INSTRUCTION ==
    "Translate the answer to Hebrew, except Brands or technology terms and definitions. "
FRAME_HEAD == "Summarize this text extracted from a "
REMOVE_ADS_INSTRUCTION ==
    "Remove any non-article elements like ads or navigation links. "
SUMMARY_INSTRUCTION ==
    "Please provide a concise summary of the following article, focusing on the main points, arguments, and conclusions. "
LIMIT_HEAD == "The summary should be clear, informative, and no longer than "
DASH_INSTRUCTION ==
    "Replace bullet points with dashes (-), and use spaces to indicate indentation. "

BuildPromptTextFirst(text, is_webpage, config) ==
    text \o <<"\n\n">>
    \o (IF config.lang = "heb" THEN <<TRANSLATION_INSTRUCTION>> ELSE <<>>)
    \o <<FRAME_HEAD, IF is_webpage THEN "webpage" ELSE "article", ".">>
    \o (IF is_webpage THEN <<REMOVE_ADS_INSTRUCTION>> ELSE <<>>)
    \o <<SUMMARY_INSTRUCTION, LIMIT_HEAD, ToString(config.words_limit.val), " words. ",
         DASH_INSTRUCTION>>

BuildPromptAlwaysAds(text, is_webpage, config) ==
    (IF config.lang = "heb" THEN <<TRANSLATION_INSTRUCTION>> ELSE <<>>)
    \o <<FRAME_HEAD, IF is_webpage THEN "webpage" ELSE "article", ".">>
    \o <<REMOVE_ADS_INSTRUCTION>>
    \o <<SUMMARY_INSTRUCTION, LIMIT_HEAD, ToString(config.words_limit.val), " words. ",
         DASH_INSTRUCTION>>
    \o <<"\n\n">> \o text

BuildPrompt(text, is_webpage, config) ==
    (IF config.lang = "heb" THEN <<TRANSLATION_INSTRUCTION>> ELSE <<>>)
    \o <<FRAME_HEAD, IF is_webpage THEN "webpage" ELSE "article", ".">>
    \o (IF is_webpage THEN <<REMOVE_ADS_INSTRUCTION>> ELSE <<>>)
    \o <<SUMMARY_INSTRUCTION, LIMIT_HEAD, ToString(config.words_limit.val), " words. ",
         DASH_INSTRUCTION>>
    \o <<"\n\n">> \o text

\* str.strip(): leading and trailing whitespace removed
Whitespace == {" ", "\n", "\t"}
RECURSIVE LStrip(_)
LStrip(s) == IF s # <<>> /\ Head(s) \in Whitespace THEN LStrip(Tail(s)) ELSE s
RECURSIVE RStrip(_)
RStrip(s) ==
    IF s # <<>> /\ s[Len(s)] \in Whitespace THEN RStrip(SubSeq(s, 1, Len(s) - 1)) ELSE s
Strip(s) == RStrip(LStrip(s))

(***************************************************************************)
(* The bot's handlers (src/bot/telegram_bot.py). A handler runs from the   *)
(* update to its return or to the exception that leaves it. One collabo-   *)
(* rator call per request may fail (fault); the completion, when it is     *)
(* reached, answers with one of Completions.                               *)
(***************************************************************************)
PageArticle ==
    <<Node("nav", <<"Home">>), Node("main", <<"Main", "story">>),
      Node("article", <<"Article", "body">>)>>
PageDiv ==
    <<Node("main", <<"Main", "story">>),
      Node("div.article-content", <<"Div", "body">>), Node("footer", <<"Ads">>)>>
PageMain ==
    <<Node("script", <<"js">>), Node("main", <<"Main", "story">>),
      Node("footer", <<"Ads">>)>>
PagePlain ==
    <<Node("nav", <<"Home">>), Node("style", <<"css">>), Node("p", <<"Plain", "text">>)>>
PageEmpty == <<Node("script", <<"js">>)>>

\* The page each URL renders to.
Web ==
    [u \in {"u/article", "u/div", "u/main", "u/plain", "u/empty"} |->
        CASE u = "u/article" -> PageArticle
          [] u = "u/div" -> PageDiv
          [] u = "u/main" -> PageMain
          [] u = "u/plain" -> PagePlain
          [] OTHER -> PageEmpty]

\* update.message.document: None ({}), a PDF, or another file
Documents ==
    {[mime_type |-> "application/pdf", text |-> <<"Pdf", " ", "text">>],
     [mime_type |-> "application/pdf", text |-> <<>>],
     [mime_type |-> "image/png", text |-> <<>>]}

\* context.args of /summ and of /set
SummArgs == {<<>>, <<"pdf">>, <<"PDF">>} \cup {<<u>> : u \in DOMAIN Web}
SetArgs ==
    {<<>>, <<"heb">>, <<"fra", "300">>, <<"heb", "abc">>, <<"eng", "300">>,
     <<"heb", "800", "5">>, <<"heb", "0", "1">>, <<"eng", "801">>,
     <<"eng", "300", "0">>, <<"eng", "300", "4097">>, <<"eng", "300", "abc">>,
     <<"eng", "300", "5", "x">>}

\* str.lower() on the words above
Lower(w) == IF w = "PDF" THEN "pdf" ELSE w

\* str.isdigit() and int() on the words above
DigitWords == {"0", "1", "5", "300", "800", "801", "4097"}
IsDigit(w) == w \in DigitWords
IntOf(w) ==
    CASE w = "0" -> 0 [] w = "1" -> 1 [] w = "5" -> 5 [] w = "300" -> 300
      [] w = "800" -> 800 [] w = "801" -> 801 [] w = "4097" -> 4097

TELEGRAM_MESSAGE_SIZE_LIMIT == 4096

\* What the completion may answer (message.content).
Completions ==
    {<<" ", "H", "i", "\n">>,
     <<"<", "p", ">", "-", " ", "a", ".", " ", "b", "<", "/", "p", ">">>}

Faults ==
    {"none", "extract", "config_get", "config_set", "completion", "reply", "upload",
     "download"}

\* context.args of /resp
RespArgs == {<<>>, <<"why">>, <<"tell", "more">>}

RESPOND_SEPARATOR == "\n\n\n\n\n\n"

Reply(via, msg, body) == [via |-> via, msg |-> msg, body |-> body]

Request(handler, authorized, args, doc, fault) ==
    [handler |-> handler, authorized |-> authorized, args |-> args, doc |-> doc,
     fault |-> fault, extracted |-> FALSE, prompts |-> <<>>, replies |-> <<>>,
     outcome |-> "returned", error |-> "none", slotPre |-> slot, storePre |-> store]

\* The handler answers with one fixed text and returns.
ReplyTextAndReturn(r, msg) ==
    /\ req' = IF r.fault = "reply"
              THEN [r EXCEPT !.outcome = "raised", !.error = "TelegramError"]
              ELSE [r EXCEPT !.replies = <<Reply("text", msg, <<>>)>>]
    /\ UNCHANGED <<store, slot>>

\* config = read_or_initialize_config(); summary = summarize(text, is_webpage,
\* config); reply_html(summary): the store left, the prompts sent, the reply
\* made and the error raised, if any.
SummarizeAndReply(text, is_webpage, fault, content) ==
    LET roi == ReadOrInitializeResult(store, fault # "config_get", fault # "config_set")
    IN  IF roi.outcome # "ok"
        THEN [store |-> roi.store, prompts |-> <<>>, replies |-> <<>>,
              error |-> "StorageError"]
        ELSE
        LET config == CHOOSE c \in roi.ret : TRUE
            prompt == BuildPrompt(text, is_webpage, config)
            summary == Strip(content)
            message == PrepareMessageForTelegram(summary,
                                                 config.telegram_message_size_limit.val)
        IN  IF fault = "completion"
            THEN [store |-> roi.store, prompts |-> <<prompt>>, replies |-> <<>>,
                  error |-> "ProviderError"]
            ELSE IF fault = "reply"
            THEN [store |-> roi.store, prompts |-> <<prompt>>, replies |-> <<>>,
                  error |-> "TelegramError"]
            ELSE [store |-> roi.store, prompts |-> <<prompt>>,
                  replies |-> <<Reply("html", "summary", message)>>,
                  error |-> "none"]

UploadFromStringKeepFirst(blob, text, ok) ==
    IF ok /\ blob = {} THEN {text} ELSE blob

\* blob.upload_from_string(text) inside try/except: the blob holds the text, or
\* is left as it was when the upload fails.
UploadFromString(blob, text, ok) == IF ok THEN {text} ELSE blob

FinishSummarizeUploadFirst(r, text, is_webpage) ==
    \E content \in Completions :
    \E p \in {SummarizeAndReply(text, is_webpage, r.fault, content)} :
        /\ store' = p.store
        /\ slot' = UploadFromString(slot, text, r.fault # "upload")
        /\ IF p.error # "none"
           THEN req' = [r EXCEPT !.extracted = TRUE, !.prompts = p.prompts,
                                 !.outcome = "raised", !.error = p.error]
           ELSE req' = [r EXCEPT !.extracted = TRUE, !.prompts = p.prompts,
                                 !.replies = p.replies]

\* The rest of a summarize handler once the text is extracted: the pipeline,
\* then the upload of the text to the blob, whose failure is only logged.
FinishSummarize(r, text, is_webpage) ==
    \E content \in Completions :
    \E p \in {SummarizeAndReply(text, is_webpage, r.fault, content)} :
        /\ store' = p.store
        /\ IF p.error # "none"
           THEN /\ req' = [r EXCEPT !.extracted = TRUE, !.prompts = p.prompts,
                                    !.outcome = "raised", !.error = p.error]
                /\ UNCHANGED slot
           ELSE /\ req' = [r EXCEPT !.extracted = TRUE, !.prompts = p.prompts,
                                    !.replies = p.replies]
                /\ slot' = UploadFromString(slot, text, r.fault # "upload")

\* TelegramBot.summarize_article (/summ)
SummarizeArticle(authorized, args, fault) ==
    LET r == Request("summarize_article", authorized, args, {}, fault)
    IN  IF ~authorized
        THEN ReplyTextAndReturn(r, "You are not authorized to use this command.")
        ELSE IF args = <<>>
        THEN ReplyTextAndReturn(r, "Please provide a URL after the command, e.g., /summ <URL>.")
        ELSE IF Lower(args[1]) = "pdf"
        THEN ReplyTextAndReturn(r, "Please upload the PDF file.")
        ELSE IF fault = "extract"
        THEN /\ req' = [r EXCEPT !.extracted = TRUE, !.outcome = "raised",
                                 !.error = "ExtractionError"]
             /\ UNCHANGED <<store, slot>>
        ELSE
        LET ex == ExtractFromUrl(Web[args[1]])
        IN  IF ex.text = <<>>
            THEN /\ req' = [r EXCEPT !.extracted = TRUE]
                 /\ UNCHANGED <<store, slot>>
            ELSE FinishSummarize(r, ex.text, ex.is_full_page)

\* TelegramBot.summarize_pdf (any message that is no command)
SummarizePdf(authorized, doc, fault) ==
    LET r == Request("summarize_pdf", authorized, <<>>, doc, fault)
    IN  IF ~authorized
        THEN ReplyTextAndReturn(r, "You are not authorized to use this command.")
        ELSE IF doc = {}
        THEN ReplyTextAndReturn(r, "Please upload a valid PDF file.")
        ELSE
        LET document == CHOOSE d \in doc : TRUE
        IN  IF document.mime_type # "application/pdf"
            THEN ReplyTextAndReturn(r, "Please upload a valid PDF file.")
            ELSE IF fault = "extract"
            THEN /\ req' = [r EXCEPT !.extracted = TRUE, !.outcome = "raised",
                                     !.error = "ExtractionError"]
                 /\ UNCHANGED <<store, slot>>
            ELSE FinishSummarize(r, document.text, FALSE)

\* TelegramBot.set_config (/set)
SetConfig(authorized, args, fault) ==
    LET r == Request("set_config", authorized, args, {}, fault)
    IN  IF ~authorized
        THEN ReplyTextAndReturn(r, "You are not authorized to use this command.")
        ELSE IF args = <<>> \/ Len(args) < 2 \/ Len(args) > 3
                \/ args[1] \notin {"heb", "eng"} \/ ~IsDigit(args[2])
        THEN ReplyTextAndReturn(r, "Please provide valid configuration, i.e., /set <heb/eng> <word limit> [max chars].")
        ELSE
        LET lang == args[1]
            words_limit == IntOf(args[2])
            size == IF Len(args) = 3 /\ IsDigit(args[3])
                    THEN IntOf(args[3]) ELSE TELEGRAM_MESSAGE_SIZE_LIMIT
            u == UpdateConfigResult(store, lang, PyInt(words_limit), PyInt(size),
                                    fault # "config_set")
        IN  /\ store' = u.store
            /\ UNCHANGED slot
            /\ IF u.outcome = "ValueError"
               THEN req' = [r EXCEPT !.outcome = "raised", !.error = "ValueError"]
               ELSE IF fault = "reply"
               THEN req' = [r EXCEPT !.outcome = "raised", !.error = "TelegramError"]
               ELSE req' = [r EXCEPT !.replies =
                               <<Reply("text",
                                       IF u.outcome = "True"
                                       THEN "Configuration updated successfully."
                                       ELSE "Failed to update configuration.",
                                       <<>>)>>]

RespondPromptQuestionFirst(last_text, args) ==
    JoinSp(args) \o <<RESPOND_SEPARATOR>> \o last_text \o <<"\n\n">>

\* The prompt respond_summary sends: the last article, the separator, the
\* user's words joined by single spaces, and a closing blank line.
RespondPrompt(last_text, args) ==
    last_text \o <<RESPOND_SEPARATOR>> \o JoinSp(args) \o <<"\n\n">>

\* TelegramBot.respond_summary (/resp)
RespondSummary(authorized, args, fault) ==
    LET r == Request("respond_summary", authorized, args, {}, fault)
    IN  IF ~authorized
        THEN ReplyTextAndReturn(r, "You are not authorized to use this command.")
        ELSE IF args = <<>>
        THEN ReplyTextAndReturn(r, "Please provide a response for the last summary, e.g., /resp <RESPONSE>.")
        ELSE
        \E content \in Completions :
        \E roi \in {ReadOrInitializeResult(store, fault # "config_get",
                                            fault # "config_set")} :
            /\ store' = roi.store
            /\ UNCHANGED slot
            /\ IF roi.outcome # "ok"
               THEN req' = [r EXCEPT !.outcome = "raised", !.error = "StorageError"]
               ELSE IF slot = {} \/ fault = "download"
               THEN req' = [r EXCEPT !.replies =
                               <<Reply("text", "Failed to retrieve the last article. Please try summarizing a new article.", <<>>)>>]
               ELSE
               LET config == CHOOSE c \in roi.ret : TRUE
                   last_text == CHOOSE t \in slot : TRUE
                   prompt == RespondPrompt(last_text, args)
               IN  IF fault = "completion"
                   THEN req' = [r EXCEPT !.prompts = <<prompt>>, !.outcome = "raised",
                                         !.error = "ProviderError"]
                   ELSE IF fault = "reply"
                   THEN req' = [r EXCEPT !.prompts = <<prompt>>, !.outcome = "raised",
                                         !.error = "TelegramError"]
                   ELSE req' = [r EXCEPT !.prompts = <<prompt>>, !.replies =
                                   <<Reply("html", "response",
                                       PrepareMessageForTelegram(Strip(content),
                                           config.telegram_message_size_limit.val))>>]

\* The text get_config builds from the configuration it read.
ConfigMsg(config) ==
    <<"language: ", config.lang, "\nsummary words limit: ",
      ToString(config.words_limit.val), "\ntelegram_msg_limit: ",
      ToString(config.telegram_message_size_limit.val), "\n">>

GetConfigUnchecked(authorized, fault) ==
    LET r == Request("get_config", authorized, <<>>, {}, fault)
    IN  \E roi \in {ReadOrInitializeResult(store, fault # "config_get",
                                            fault # "config_set")} :
            /\ store' = roi.store
            /\ UNCHANGED slot
            /\ IF roi.outcome # "ok"
               THEN req' = [r EXCEPT !.outcome = "raised", !.error = "StorageError"]
               ELSE IF fault = "reply"
               THEN req' = [r EXCEPT !.outcome = "raised", !.error = "TelegramError"]
               ELSE req' = [r EXCEPT !.replies =
                               <<Reply("text", "config",
                                       ConfigMsg(CHOOSE c \in roi.ret : TRUE))>>]

\* TelegramBot.get_config (/get)
GetConfig(authorized, fault) ==
    LET r == Request("get_config", authorized, <<>>, {}, fault)
    IN  IF ~authorized
        THEN ReplyTextAndReturn(r, "You are not authorized to use this command.")
        ELSE
        \E roi \in {ReadOrInitializeResult(store, fault # "config_get",
                                            fault # "config_set")} :
            /\ store' = roi.store
            /\ UNCHANGED slot
            /\ IF roi.outcome # "ok"
               THEN req' = [r EXCEPT !.outcome = "raised", !.error = "StorageError"]
               ELSE IF fault = "reply"
               THEN req' = [r EXCEPT !.outcome = "raised", !.error = "TelegramError"]
               ELSE req' = [r EXCEPT !.replies =
                               <<Reply("text", "config",
                                       ConfigMsg(CHOOSE c \in roi.ret : TRUE))>>]

\* TelegramBot.shutdown (/shut): the goodbye, then the application is stopped
\* and sys.exit(0) ends the process.
Shutdown(authorized, fault) ==
    LET r == Request("shutdown", authorized, <<>>, {}, fault)
    IN  IF ~authorized
        THEN ReplyTextAndReturn(r, "You are not authorized to use this command.")
        ELSE /\ req' = IF fault = "reply"
                       THEN [r EXCEPT !.outcome = "raised", !.error = "TelegramError"]
                       ELSE [r EXCEPT !.replies =
                                <<Reply("text", "Shutting down the bot. Goodbye!", <<>>)>>,
                                      !.outcome = "exit"]
             /\ UNCHANGED <<store, slot>>

\* The process has not exited.
Running == req.outcome # "exit"

InitBot ==
    /\ FormatIdle
    /\ ConfigIdle
    /\ BotIdle
    /\ SummIdle
    /\ ClientsIdle

NextBot ==
    \/ /\ Running
       /\ \E a \in BOOLEAN, args \in SummArgs, f \in Faults :
             SummarizeArticle(a, args, f)
       /\ UNCHANGED <<last, written, fmtVars, sumVars, conVars>>
    \/ /\ Running
       /\ \E a \in BOOLEAN, d \in {{}} \cup {{x} : x \in Documents}, f \in Faults :
             SummarizePdf(a, d, f)
       /\ UNCHANGED <<last, written, fmtVars, sumVars, conVars>>
    \/ /\ Running
       /\ \E a \in BOOLEAN, args \in SetArgs, f \in Faults : SetConfig(a, args, f)
       /\ UNCHANGED <<last, written, fmtVars, sumVars, conVars>>
    \/ /\ Running
       /\ \E a \in BOOLEAN, args \in RespArgs, f \in Faults : RespondSummary(a, args, f)
       /\ UNCHANGED <<last, written, fmtVars, sumVars, conVars>>
    \/ /\ Running
       /\ \E a \in BOOLEAN, f \in Faults : GetConfig(a, f)
       /\ UNCHANGED <<last, written, fmtVars, sumVars, conVars>>
    \/ /\ Running
       /\ \E a \in BOOLEAN, f \in Faults : Shutdown(a, f)
       /\ UNCHANGED <<last, written, fmtVars, sumVars, conVars>>

SpecBot == InitBot /\ [][NextBot]_vars

(***************************************************************************)
(* Properties of the summarize handlers (SpecBot).                         *)
(***************************************************************************)
\* The source kind of the text a summarize request extracted: a PDF upload, the
\* content container of the page (article element, article-content container
\* or main element), or the whole page when it has none.
HasContainer(page) ==
    \E i \in 1..Len(page) : page[i].tag \in {"article", "div.article-content", "main"}

SourceKind(r) ==
    IF r.handler = "summarize_pdf" THEN "PdfDocument"
    ELSE IF HasContainer(Web[r.args[1]]) THEN "ArticleBody"
    ELSE "FullPage"

Framed(prompt, as) == Contains(prompt, <<FRAME_HEAD, as, ".">>)

\* C10: a prompt sent for a summarize request holds the instruction to remove
\* ads and navigation exactly when the source kind is FullPage; it is framed as
\* "webpage" for FullPage and as "article" for ArticleBody and PdfDocument.
C10_AdInstruction ==
    req.handler \in {"summarize_article", "summarize_pdf"} =>
    \A i \in 1..Len(req.prompts) :
        LET prompt == req.prompts[i]
            kind == SourceKind(req)
        IN  /\ Contains(prompt, <<REMOVE_ADS_INSTRUCTION>>) <=> kind = "FullPage"
            /\ kind = "FullPage" =>
                  (Framed(prompt, "webpage") /\ ~Framed(prompt, "article"))
            /\ kind \in {"ArticleBody", "PdfDocument"} =>
                  (Framed(prompt, "article") /\ ~Framed(prompt, "webpage"))

\* A PDF was summarized, without the instruction, after a page with no content
\* container had been summarized (its text is the last article).
C10_Witness ==
    /\ req.handler = "summarize_pdf" /\ Len(req.prompts) = 1
    /\ ~Contains(req.prompts[1], <<REMOVE_ADS_INSTRUCTION>>)
    /\ req.slotPre = {<<"Home", " ", "Plain", " ", "text">>}
    /\ ~HasContainer(PagePlain)

(***************************************************************************)
(* TextExtractor.extract_from_url and TextSummarizer, called on their own  *)
(* (src/services/text_extractor.py, src/services/text_summarizer.py): one  *)
(* call from the idle state, on a page, or on a text, a configuration the  *)
(* store can hold and an answer of the completion.                         *)
(***************************************************************************)
MaxNodes == 3
LongCompletionLen == 4097

NodeTags == {"article", "div.article-content", "main", "script", "nav", "p"}

\* The page with the given tags in document order; node i holds two strings.
PageOf(tags) == [i \in 1..Len(tags) |-> Node(tags[i], <<tags[i], ToString(i)>>)]

Pages == UNION {{PageOf(t) : t \in [1..n -> NodeTags]} : n \in 0..MaxNodes}

SummTexts ==
    {<<>>, <<"AAAAAAAAAAAAAAAAAAAAAAAAAAAAAAAAAAAAAAAAAAAAAAAAAA">>, <<"Pdf", " ", "text">>}

\* The configuration documents the store can hold (what update_config accepts).
SummConfigs ==
    {ConfigDoc(l, PyInt(w), PyInt(m)) :
        l \in {"eng", "heb"}, w \in {0, 300, 800}, m \in {1, 2, 3, 5, 4095, 4096}}

LongCompletion == [i \in 1..LongCompletionLen |-> "a"]

SummCompletions == Completions \cup {LongCompletion, <<>>}

SummarizeResultRetry(text, is_webpage, config, completionOk, content) ==
    LET prompt == BuildPrompt(text, is_webpage, config)
    IN  IF ~completionOk
        THEN [prompts |-> <<prompt, prompt>>, returned |-> {}, error |-> "ProviderError"]
        ELSE [prompts |-> <<prompt>>,
              returned |-> {PrepareMessageForTelegram(
                                Strip(content), config.telegram_message_size_limit.val)},
              error |-> "none"]

\* OpenAIUtils.get_openai_summary then prepare_message_for_telegram: the
\* prompts sent to the completion, the string returned and the error raised.
SummarizeResult(text, is_webpage, config, completionOk, content) ==
    LET prompt == BuildPrompt(text, is_webpage, config)
    IN  IF ~completionOk
        THEN [prompts |-> <<prompt>>, returned |-> {}, error |-> "ProviderError"]
        ELSE [prompts |-> <<prompt>>,
              returned |-> {PrepareMessageForTelegram(
                                Strip(content), config.telegram_message_size_limit.val)},
              error |-> "none"]

\* TextSummarizer.summarize
Summarize(text, is_webpage, config, completionOk, content) ==
    /\ call.op = "none"
    /\ \E r \in {SummarizeResult(text, is_webpage, config, completionOk, content)} :
          call' = [NoCall EXCEPT !.op = "summarize", !.text = text,
                                 !.is_webpage = is_webpage, !.config = {config},
                                 !.prompts = r.prompts, !.returned = r.returned,
                                 !.error = r.error]

\* TextSummarizer.respond: get_openai_response takes the prompt only, so the
\* call with (prompt, config) raises TypeError before any completion is asked.
Respond(prompt, config) ==
    /\ call.op = "none"
    /\ call' = [NoCall EXCEPT !.op = "respond", !.text = prompt, !.config = {config},
                              !.error = "TypeError"]

\* TextExtractor.extract_from_url on a loaded page
ExtractUrl(page) ==
    /\ call.op = "none"
    /\ \E ex \in {ExtractFromUrl(page)} :
          call' = [NoCall EXCEPT !.op = "extract_from_url", !.page = page,
                                 !.text = ex.text, !.is_webpage = ex.is_full_page]

InitSummarizer ==
    /\ FormatIdle
    /\ ConfigIdle
    /\ BotIdle
    /\ SummIdle
    /\ ClientsIdle

NextSummarizer ==
    \/ /\ \E text \in SummTexts, w \in BOOLEAN, c \in SummConfigs, ok \in BOOLEAN,
             content \in SummCompletions : Summarize(text, w, c, ok, content)
       /\ UNCHANGED <<cfgVars, fmtVars, botVars, conVars>>
    \/ /\ \E prompt \in SummTexts, c \in SummConfigs : Respond(prompt, c)
       /\ UNCHANGED <<cfgVars, fmtVars, botVars, conVars>>
    \/ /\ \E page \in Pages : ExtractUrl(page)
       /\ UNCHANGED <<cfgVars, fmtVars, botVars, conVars>>

SpecSummarizer == InitSummarizer /\ [][NextSummarizer]_vars

\* C11: a summarize call asks the completion exactly once; when the completion
\* answers, the call returns a string, of at most 4096 characters under the
\* configuration {eng, 300, 4096}; when the completion fails, the error leaves
\* the call after that one request and nothing is returned.
C11_OneCompletion ==
    call.op = "summarize" =>
        /\ Len(call.prompts) = 1
        /\ call.error = "none" =>
              /\ Cardinality(call.returned) = 1
              /\ call.config = {DefaultConfig} =>
                    \A m \in call.returned : Len(m) <= TELEGRAM_MESSAGE_SIZE_LIMIT
        /\ call.error # "none" => call.error = "ProviderError" /\ call.returned = {}

\* Under {eng, 300, 4096} a completion of more than 4096 characters came back
\* cut to 4096 characters.
C11_Witness ==
    /\ call.op = "summarize" /\ call.config = {DefaultConfig} /\ call.is_webpage
    /\ call.text = <<"AAAAAAAAAAAAAAAAAAAAAAAAAAAAAAAAAAAAAAAAAAAAAAAAAA">>
    /\ Len(call.prompts) = 1
    /\ \E m \in call.returned : Len(m) = TELEGRAM_MESSAGE_SIZE_LIMIT /\ EndsWith(m, ELLIPSIS)

\* C12: no collaborator failure (extraction, completion, content store,
\* configuration validation or persistence) leaves a handler as an exception;
\* only a failure of the reply itself, which cannot be told to the user, does.
C12_FailuresCaught ==
    req.outcome = "raised" => req.error = "TelegramError"

\* C13: whatever configuration a summarize or respond call is given, the
\* string it returns has at most 4096 characters.
C13_Ceiling ==
    \A m \in call.returned : Len(m) <= TELEGRAM_MESSAGE_SIZE_LIMIT

\* The respond request got as far as retrieving the last article.
RespondReachedRetrieval ==
    /\ req.handler = "respond_summary" /\ req.authorized /\ req.args # <<>>
    /\ req.error # "StorageError"

RetrievalFailed == req.slotPre = {} \/ req.fault = "download"

UNAVAILABLE_REPLY ==
    Reply("text", "Failed to retrieve the last article. Please try summarizing a new article.", <<>>)

\* When the retrieval fails, the user is told so, no completion is asked and
\* no formatted reply is sent.
RetrievalFailureSurfaced ==
    /\ req.replies = <<UNAVAILABLE_REPLY>>
    /\ req.prompts = <<>>
    /\ req.outcome = "returned"

ExtractedText(r) ==
    IF r.handler = "summarize_pdf" THEN (CHOOSE d \in r.doc : TRUE).text
    ELSE ExtractFromUrl(Web[r.args[1]]).text

IsSummarize(r) == r.handler \in {"summarize_article", "summarize_pdf"}

SummaryDelivered(r) ==
    /\ IsSummarize(r) /\ r.outcome = "returned"
    /\ r.replies # <<>> /\ r.replies[1].via = "html"

\* A summarize request completed: summary delivered and text stored.
SummarizeCompleted(r) == SummaryDelivered(r) /\ r.fault # "upload"

StartsWith(s, pat) == Len(pat) <= Len(s) /\ SubSeq(s, 1, Len(pat)) = pat

\* C15: after a completed summarize request the slot holds exactly the text
\* that request extracted; the slot changes in no other way; and a respond
\* request that asks the completion builds its prompt from the text in the slot.
C15_SingleSlot ==
    /\ [](SummarizeCompleted(req) => slot = {ExtractedText(req)})
    /\ [](req.handler = "respond_summary" /\ req.prompts # <<>> =>
             /\ slot = req.slotPre
             /\ Len(req.prompts) = 1
             /\ \E t \in slot :
                   StartsWith(req.prompts[1], t \o <<RESPOND_SEPARATOR>>))
    /\ [][slot' # slot =>
             SummarizeCompleted(req') /\ slot' = {ExtractedText(req')}]_vars

\* A PDF summary replaced the stored text of a page by the text of the PDF.
C15_Witness ==
    /\ SummarizeCompleted(req) /\ req.handler = "summarize_pdf"
    /\ req.slotPre = {<<"Article", " ", "body">>}
    /\ slot = {<<"Pdf", " ", "text">>}

\* The positions of the nodes of a page with the given tag.
Positions(page, tag) == {i \in 1..Len(page) : page[i].tag = tag}

First(S) == CHOOSE i \in S : \A j \in S : i <= j

\* The content container of a page by priority: the first article element,
\* else the first article-content container, else the first main element;
\* 0 when the page has none.
Container(page) ==
    IF Positions(page, "article") # {} THEN First(Positions(page, "article"))
    ELSE IF Positions(page, "div.article-content") # {}
    THEN First(Positions(page, "div.article-content"))
    ELSE IF Positions(page, "main") # {} THEN First(Positions(page, "main"))
    ELSE 0

\* C16: extract_from_url returns the text of the highest-priority container
\* present, flagged as article body; with no container it returns the text of
\* the whole document (scripts and styles left out), flagged as full page.
C16_ContainerPriority ==
    call.op = "extract_from_url" =>
        LET page == call.page
            c == Container(page)
        IN  IF c # 0
            THEN call.text = JoinSp(page[c].strings) /\ ~call.is_webpage
            ELSE /\ call.is_webpage
                 /\ call.text = JoinSp(StrippedStrings(Decompose(page)))

\* A page with a main element, then an article-content container, then an
\* article element gave the text of the article element.
C16_Witness ==
    /\ call.op = "extract_from_url"
    /\ call.page = PageOf(<<"main", "div.article-content", "article">>)
    /\ call.text = <<"article", " ", "3">>
    /\ ~call.is_webpage

\* The part of a sequence from position i to its end.
From(s, i) == SubSeq(s, i, Len(s))

\* C17: the prompt of a summarize call is, in this order: the translation
\* instruction exactly when the language is heb; the framing; the ad-removal
\* instruction exactly when the text is a full page; the summary instruction
\* with the configured word limit and the dash instruction; a blank line; and
\* the text as it was given.
C17_PromptOrder ==
    call.op = "summarize" =>
        \A config \in call.config :
            LET prompt == call.prompts[1]
                t == IF config.lang = "heb" THEN 1 ELSE 0
                a == IF call.is_webpage THEN 1 ELSE 0
                k == t + 3 + a
            IN  /\ Len(prompt) = k + 6 + Len(call.text)
                /\ t = 1 => prompt[1] = TRANSLATION_INSTRUCTION
                /\ t = 0 => ~Contains(prompt, <<TRANSLATION_INSTRUCTION>>)
                /\ SubSeq(prompt, t + 1, t + 3) =
                      <<FRAME_HEAD, IF call.is_webpage THEN "webpage" ELSE "article", ".">>
                /\ a = 1 => prompt[t + 4] = REMOVE_ADS_INSTRUCTION
                /\ a = 0 => ~Contains(prompt, <<REMOVE_ADS_INSTRUCTION>>)
                /\ SubSeq(prompt, k + 1, k + 5) =
                      <<SUMMARY_INSTRUCTION, LIMIT_HEAD, ToString(config.words_limit.val),
                        " words. ", DASH_INSTRUCTION>>
                /\ prompt[k + 6] = "\n\n"
                /\ From(prompt, k + 7) = call.text

\* A full-page text was summarized under a heb configuration with word limit
\* 800: the prompt opens with the translation instruction and ends with the text.
C17_Witness ==
    /\ call.op = "summarize" /\ call.is_webpage
    /\ call.config = {ConfigDoc("heb", PyInt(800), PyInt(5))}
    /\ call.text = <<"Pdf", " ", "text">>
    /\ call.prompts[1][1] = TRANSLATION_INSTRUCTION
    /\ call.prompts[1][5] = REMOVE_ADS_INSTRUCTION
    /\ call.prompts[1][8] = "800"
    /\ From(call.prompts[1], 12) = call.text

(***************************************************************************)
(* ConfigManager under concurrent callers                                  *)
(* (src/services/config_manager.py). Each client makes one call; a call is *)
(* a sequence of Firestore operations on the one document, each atomic,    *)
(* and the operations of different clients interleave freely: the methods  *)
(* use no transaction and no lock.                                         *)
(***************************************************************************)
NumClients == 3
ClientIds == 1..NumClients

ConcLangs == {"eng", "heb"}
ConcWords == {PyInt(0), PyInt(801)}
ConcSizes == {PyInt(1), PyInt(4096)}

IdleClient == [pc |-> "idle", op |-> "none", args |-> NoArgs, ret |-> "none"]

SetDocumentMerge(st, doc) ==
    IF st = {} THEN {doc} ELSE {[doc EXCEPT !.lang = d.lang] : d \in st}

\* doc_ref.set(doc): the document is replaced as a whole.
SetDocument(st, doc) == {doc}

\* update_config, lines 104-109: the checks; a valid call goes on to the write.
CallUpdate(c, lang, words_limit, size) ==
    /\ clients[c].pc = "idle"
    /\ clients' = [clients EXCEPT ![c] =
          IF ValidInput(lang, words_limit, size)
          THEN [pc |-> "set", op |-> "update_config",
                args |-> <<lang, words_limit, size>>, ret |-> "none"]
          ELSE [pc |-> "done", op |-> "update_config",
                args |-> <<lang, words_limit, size>>, ret |-> "ValueError"]]
    /\ UNCHANGED <<store, last, written>>

\* update_config, lines 111-121: the write, True, or False when it fails.
UpdateSet(c, setOk) ==
    /\ clients[c].pc = "set"
    /\ LET a == clients[c].args
       IN  /\ store' = IF setOk THEN SetDocument(store, ConfigDoc(a[1], a[2], a[3]))
                       ELSE store
           /\ written' = IF setOk THEN {a} ELSE written
    /\ clients' = [clients EXCEPT ![c].pc = "done",
                                  ![c].ret = UpdateOutcome(TRUE, setOk)]
    /\ UNCHANGED last

\* read_or_initialize_config, lines 80-83: the read; an existing document is
\* returned, an absent one sends the call on to the write of the default.
CallRead(c, getOk) ==
    /\ clients[c].pc = "idle"
    /\ clients' = [clients EXCEPT ![c] =
          IF ~getOk
          THEN [pc |-> "done", op |-> "read_or_initialize_config", args |-> NoArgs,
                ret |-> "StorageError"]
          ELSE IF store # {}
          THEN [pc |-> "done", op |-> "read_or_initialize_config", args |-> NoArgs,
                ret |-> "stored"]
          ELSE [pc |-> "set_default", op |-> "read_or_initialize_config",
                args |-> NoArgs, ret |-> "none"]]
    /\ UNCHANGED <<store, last, written>>

\* read_or_initialize_config, lines 85-86: the default is written and returned.
ReadSet(c, setOk) ==
    /\ clients[c].pc = "set_default"
    /\ store' = IF setOk THEN SetDocument(store, DefaultConfig) ELSE store
    /\ clients' = [clients EXCEPT ![c].pc = "done",
                                  ![c].ret = IF setOk THEN "default" ELSE "StorageError"]
    /\ UNCHANGED <<last, written>>

InitConcurrent ==
    /\ FormatIdle
    /\ BotIdle
    /\ SummIdle
    /\ ConfigIdle
    /\ clients = [c \in ClientIds |-> IdleClient]

NextConcurrent ==
    \/ /\ \E c \in ClientIds, lang \in ConcLangs, w \in ConcWords, s \in ConcSizes :
             CallUpdate(c, lang, w, s)
       /\ UNCHANGED <<fmtVars, botVars, sumVars>>
    \/ /\ \E c \in ClientIds, setOk \in BOOLEAN : UpdateSet(c, setOk)
       /\ UNCHANGED <<fmtVars, botVars, sumVars>>
    \/ /\ \E c \in ClientIds, getOk \in BOOLEAN : CallRead(c, getOk)
       /\ UNCHANGED <<fmtVars, botVars, sumVars>>
    \/ /\ \E c \in ClientIds, setOk \in BOOLEAN : ReadSet(c, setOk)
       /\ UNCHANGED <<fmtVars, botVars, sumVars>>

SpecConcurrent == InitConcurrent /\ [][NextConcurrent]_vars

\* The document made of a submitted triple.
DocOf(t) == [lang |-> t[1], words_limit |-> t[2], telegram_message_size_limit |-> t[3]]

\* Every client made a valid update_config call and the call has returned.
AllUpdatesDone ==
    \A c \in ClientIds :
        /\ clients[c].op = "update_config" /\ clients[c].pc = "done"
        /\ clients[c].ret \in {"True", "False"}

\* C18: once concurrent valid update_config calls have all returned, the stored
\* document is the whole triple of the call whose write came last (nothing is
\* stored if every write failed); at no time does the stored document mix
\* fields of two calls.
C18_LastWriteWins ==
    /\ AllUpdatesDone =>
          /\ written = {} => store = {}
          /\ \A t \in written :
                /\ store = {DocOf(t)}
                /\ \E c \in ClientIds : clients[c].args = t /\ clients[c].ret = "True"
    /\ \A d \in store :
          \/ d = SpecDefault
          \/ \E c \in ClientIds :
                clients[c].op = "update_config" /\ d = DocOf(clients[c].args)

\* Three updates with three different triples have all returned True and the
\* store holds the triple written last.
C18_Witness ==
    /\ AllUpdatesDone
    /\ \A c \in ClientIds : clients[c].ret = "True"
    /\ \A c, d \in ClientIds : c # d => clients[c].args # clients[d].args
    /\ \E t \in written : store = {DocOf(t)}

\* C19: a document written by update_config is never replaced by
\* read_or_initialize_config: the store holds the triple of the last
\* successful update, also when a read that saw no document interleaves.
C19_UpdateNotOverwritten ==
    \A t \in written : store = {DocOf(t)}

\* The request is one the handler goes on to summarize: an authorized /summ
\* with a URL whose page has text, or an authorized upload of a PDF.
Summarizable(r) ==
    /\ r.authorized
    /\ IF r.handler = "summarize_pdf"
       THEN r.doc # {} /\ \A d \in r.doc : d.mime_type = "application/pdf"
       ELSE /\ r.handler = "summarize_article"
            /\ r.args # <<>> /\ r.args[1] \in DOMAIN Web
            /\ ExtractedText(r) # <<>>

\* C20: a summarize request changes the last-article slot only when its summary
\* reply was delivered, so a failed extraction, summarization or delivery, an
\* empty page text and a document that is no PDF leave the slot as it was; and
\* when only the write of the slot fails, the reply has still been delivered.
C20_SlotAfterReply ==
    IsSummarize(req) =>
        /\ slot # req.slotPre => SummaryDelivered(req)
        /\ (req.outcome = "raised" \/ ~Summarizable(req)) => slot = req.slotPre
        /\ (req.fault = "upload" /\ Summarizable(req)) =>
              SummaryDelivered(req) /\ slot = req.slotPre

\* The summary of a page was delivered and the write of the slot failed: the
\* slot still holds the earlier text.
C20_Witness ==
    /\ req.handler = "summarize_article" /\ req.fault = "upload"
    /\ Summarizable(req) /\ SummaryDelivered(req)
    /\ req.slotPre = {<<"Pdf", " ", "text">>} /\ slot = req.slotPre

NOT_AUTHORIZED_REPLY == Reply("text", "You are not authorized to use this command.", <<>>)

\* The six handlers that check the sender against the allowed users.
GuardedHandlers ==
    {"set_config", "get_config", "summarize_article", "summarize_pdf",
     "respond_summary", "shutdown"}

\* C21: a request of a user who is not allowed changes nothing: the stored
\* configuration (no default is created) and the last-article slot are as
\* before, nothing is extracted, no completion is asked, the bot is not
\* stopped, and the not-authorized reply is all that is sent (nothing at all
\* when sending that reply fails).
C21_UnauthorizedNoEffect ==
    (req.handler \in GuardedHandlers /\ ~req.authorized) =>
        /\ store = req.storePre
        /\ slot = req.slotPre
        /\ ~req.extracted
        /\ req.prompts = <<>>
        /\ Running
        /\ \/ req.replies = <<NOT_AUTHORIZED_REPLY>> /\ req.outcome = "returned"
           \/ /\ req.fault = "reply" /\ req.replies = <<>>
              /\ req.outcome = "raised" /\ req.error = "TelegramError"

\* A user who is not allowed sent /get to a bot with no stored configuration:
\* the reply is the refusal and the store is still empty.
C21_Witness ==
    /\ req.handler = "get_config" /\ ~req.authorized
    /\ req.replies = <<NOT_AUTHORIZED_REPLY>>
    /\ req.storePre = {} /\ store = {}

====
